---- MODULE Spec2Model ----
(***************************************************************************)
(* Model of the MonteCarlo-Poker equity engine and its daemon front end.   *)
(*                                                                         *)
(*   Spec     the persistent command loop of main.cpp (runDaemonMode):     *)
(*            one action per kind of command line, the text handling       *)
(*            (trim, split on '|' and ',', stoi, isValidCard) computed on   *)
(*            sequences of characters as the code computes it.             *)
(*                                                                         *)
(*   SimSpec  one call of Simulator::calculate (simulator.cpp): the        *)
(*            remaining deck, the samples, and one step per trial, each     *)
(*            seat scored by evaluate_selection over the loaded tables.     *)
(*                                                                         *)
(* A text is a sequence of one-character strings. C++ vectors are          *)
(* sequences: element k of the code is element k + 1 here.                 *)
(***************************************************************************)
EXTENDS Integers, Sequences, FiniteSets, TLC

VARIABLES
    pc,           \* daemon: "READY" (in the getline loop), "TERMINATED", "CRASHED"
    marker_sent,  \* main.cpp:62
    nread,        \* daemon: number of command lines read from stdin
    cmd,          \* daemon: the command line read last, after the trim of main.cpp:64
    out,          \* daemon: the lines written to stdout, oldest first: [kind, cmd]
    resp,         \* daemon: the response written last, in full
    sim_call,     \* daemon: the compute_probabilities calls made for the last command
    nsim,         \* daemon: number of compute_probabilities calls made so far
    epc,          \* calculate: "idle", "start", "trials" (in the loop of :195), "done"
    tcfg,         \* the loaded tables: sizes and contents of c_table, table, replace
    in_N,         \* calculate's argument N
    in_comm_hand, \* calculate's argument comm_hand
    in_known_hands,    \* calculate's argument known_hands
    in_players_unknown,\* calculate's argument players_unknown
    remaining,    \* fill_empty: the result of get_remaining
    samples,      \* calculate: the samples fill_empty returned
    trial,        \* calculate: position in the loop over the samples (1-based)
    selection,    \* calculate: the 7-card buffer
    results,      \* calculate: per seat <<wins, ties>>
    scores,       \* last trial: per seat the value evaluate_selection returned
    winners,      \* last trial: the vector simulate returned
    reads,        \* last trial: the reads of c_table and table, as <<table, index>>
    ret           \* calculate's return value, once it has returned

dvars == <<pc, marker_sent, nread, cmd, out, resp, sim_call, nsim>>

evars == <<epc, tcfg, in_N, in_comm_hand, in_known_hands, in_players_unknown,
           remaining, samples, trial, selection, results, scores, winners, reads, ret>>

vars == <<dvars, evars>>

-----------------------------------------------------------------------------
(* Bounds *)

\* Command lines the daemon reads before its input ends.
MaxCmds == 3

\* Trials of one calculate call (its argument N).
MaxTrials == 2

\* Unknown seats of one calculate call.
MaxUnknown == 2

\* Known hands of the crowded deals, which leave the pool short.
ManyKnown == 22

\* Start offsets of the index windows gen_samples is taken to draw.
MaxOffset == 1

-----------------------------------------------------------------------------
(* Program constants *)

MinOpponents == 1
MaxOpponents == 8
MinIterations == 100
MaxIterations == 1000000
MaxBoard == 5
HoleSize == 2
NumFields == 4
IntMax == 2147483647
DeckSize == 52
NumRanks == 13
SelectionSize == 7
HandSize == 5
BoardSize == 5
KeyStride == 53
ReplaceEntries == 40

-----------------------------------------------------------------------------
(* Text helpers: the std::string operations main.cpp uses *)

Min(a, b) == IF a < b THEN a ELSE b

\* The characters command.find_last_not_of(" \n\r\t") skips.
TrimSet == {" ", "\n", "\r", "\t"}

RECURSIVE Trim(_)
\* command.erase(command.find_last_not_of(" \n\r\t") + 1)
Trim(s) ==
    IF s = <<>> THEN s
    ELSE IF s[Len(s)] \in TrimSet THEN Trim(SubSeq(s, 1, Len(s) - 1))
    ELSE s

\* s.substr(pos) for a 0-based pos <= size, s.substr(0, n)
SubstrFrom(s, pos) == SubSeq(s, pos + 1, Len(s))
SubstrTo(s, n) == SubSeq(s, 1, Min(n, Len(s)))

RECURSIVE FindChar(_, _, _)
\* index (1-based) of the first d in s at or after i, 0 when there is none
FindChar(s, d, i) ==
    IF i > Len(s) THEN 0
    ELSE IF s[i] = d THEN i
    ELSE FindChar(s, d, i + 1)

RECURSIVE Split(_, _)
\* while (getline(ss, part, d)) parts.push_back(part): an empty text gives no
\* part, and nothing follows a trailing delimiter.
Split(s, d) ==
    IF s = <<>> THEN <<>>
    ELSE LET k == FindChar(s, d, 1) IN
         IF k = 0 THEN <<s>>
         ELSE <<SubSeq(s, 1, k - 1)>> \o Split(SubSeq(s, k + 1, Len(s)), d)

\* card.erase(remove(card.begin(), card.end(), ' '), card.end())
RemoveSpaces(s) == SelectSeq(s, LAMBDA ch : ch # " ")

Digits == <<"0", "1", "2", "3", "4", "5", "6", "7", "8", "9">>
IsDigit(ch) == \E i \in 1..10 : Digits[i] = ch
DigitVal(ch) == (CHOOSE i \in 1..10 : Digits[i] = ch) - 1

\* isspace, which strtol skips before the number
SpaceSet == {" ", "\n", "\r", "\t", "\f"}

RECURSIVE SkipSpaces(_)
SkipSpaces(s) ==
    IF s # <<>> /\ s[1] \in SpaceSet THEN SkipSpaces(Tail(s)) ELSE s

RECURSIVE Accumulate(_, _, _)
\* the digits of s from the front; -1 once the value leaves the range of int
\* (the magnitude is held to INT_MAX, so the one text -2147483648 counts as out
\* of range here)
Accumulate(s, acc, any) ==
    IF s = <<>> \/ ~IsDigit(s[1]) THEN [val |-> acc, any |-> any]
    ELSE IF acc = -1 \/ acc > (IntMax - DigitVal(s[1])) \div 10
         THEN Accumulate(Tail(s), -1, TRUE)
         ELSE Accumulate(Tail(s), acc * 10 + DigitVal(s[1]), TRUE)

\* std::stoi: leading white space, an optional sign, then digits; what follows
\* the digits is ignored. No digit throws invalid_argument, a value outside int
\* throws out_of_range; both have what() = "stoi".
stoi(s) ==
    LET t == SkipSpaces(s)
        neg == t # <<>> /\ t[1] = "-"
        u == IF t # <<>> /\ t[1] \in {"-", "+"} THEN Tail(t) ELSE t
        a == Accumulate(u, 0, FALSE)
    IN  IF ~a.any THEN [ok |-> FALSE, what |-> "stoi"]
        ELSE IF a.val = -1 THEN [ok |-> FALSE, what |-> "stoi"]
        ELSE [ok |-> TRUE, val |-> IF neg THEN 0 - a.val ELSE a.val]

-----------------------------------------------------------------------------
(* Cards as text *)

RankChars == <<"2", "3", "4", "5", "6", "7", "8", "9", "T", "J", "Q", "K", "A">>
SuitChars == <<"c", "d", "h", "s">>

isValidCard(card) ==
    /\ Len(card) = 2
    /\ \E r \in 1..13 : RankChars[r] = card[1]
    /\ \E s \in 1..4 : SuitChars[s] = card[2]

RECURSIVE parseLoop(_, _)
\* the while loop of parseCards over the ','-separated tokens
parseLoop(toks, cards) ==
    IF toks = <<>> THEN cards
    ELSE LET card == RemoveSpaces(Head(toks)) IN
         IF card # <<>> /\ isValidCard(card) THEN parseLoop(Tail(toks), Append(cards, card))
         ELSE IF card # <<>> THEN <<>>
         ELSE parseLoop(Tail(toks), cards)

parseCards(input) ==
    IF input = <<>> THEN <<>> ELSE parseLoop(Split(input, ","), <<>>)

\* rank + suit * 13
cardStrToInt(card) ==
    LET rank == (CHOOSE r \in 1..13 : RankChars[r] = card[1]) - 1
        suit == (CHOOSE s \in 1..4 : SuitChars[s] = card[2]) - 1
    IN  rank + suit * NumRanks

-----------------------------------------------------------------------------
(* The remaining deck *)

RECURSIVE Flatten(_)
Flatten(hands) == IF hands = <<>> THEN <<>> ELSE Head(hands) \o Flatten(Tail(hands))

Range(s) == {s[i] : i \in 1..Len(s)}

\* get_remaining without the loop over the known hands (simulator.cpp:42-48)
get_remaining_board_only(comm_hand, known_hands) ==
    LET filled == {x \in Range(comm_hand) : x >= 0 /\ x < DeckSize}
    IN  SelectSeq([i \in 1..DeckSize |-> i - 1], LAMBDA x : x \notin filled)

\* filled[card] = 1 for the cards of the board and of the known hands that lie
\* in [0, 52); the cards left, in ascending order.
get_remaining(comm_hand, known_hands) ==
    LET filled == {x \in Range(comm_hand) \cup Range(Flatten(known_hands)) :
                      x >= 0 /\ x < DeckSize}
    IN  SelectSeq([i \in 1..DeckSize |-> i - 1], LAMBDA x : x \notin filled)

\* int c = players_unknown * 2 + 5 - comm_hand.size()
cards_needed(comm_hand, players_unknown) == players_unknown * 2 + 5 - Len(comm_hand)

\* convert_hand: the card texts of a hand as card numbers
convert_hand(hand) == [i \in 1..Len(hand) |-> cardStrToInt(hand[i])]

-----------------------------------------------------------------------------
(* The loaded tables *)

\* A table configuration gives the sizes of c_table and table, how their
\* entries are filled, and the substitution index. read_vect takes any file
\* whose length is a multiple of sizeof(int), so sizes and entries are whatever
\* the file holds; a missing file gives empty tables.
\*   ctKind "rank":   c_table[i] = ((i mod 53) mod 13) div 4, in 0..3
\*          "signed": the same minus 1, in -1..2
\*   tKind  "sum":    table[k] = k;  "neg": table[k] = k - 20;  "zero": 0
FullCTable == 318
FullTable == 16
ShortCTable == 200
ShortTable == 6

TableConfig(cs, ck, ts, tk, rp) ==
    [ctSize |-> cs, ctKind |-> ck, tSize |-> ts, tKind |-> tk, rep |-> rp]

Healthy == TableConfig(FullCTable, "rank", FullTable, "sum", "full")

TableConfigs ==
    { Healthy,
      TableConfig(0, "rank", FullTable, "sum", "full"),
      TableConfig(ShortCTable, "rank", FullTable, "sum", "full"),
      TableConfig(FullCTable, "signed", FullTable, "sum", "full"),
      TableConfig(FullCTable, "rank", 0, "sum", "full"),
      TableConfig(FullCTable, "rank", ShortTable, "sum", "full"),
      TableConfig(FullCTable, "rank", FullTable, "neg", "full"),
      TableConfig(FullCTable, "rank", FullTable, "zero", "full"),
      TableConfig(FullCTable, "rank", FullTable, "sum", "short"),
      TableConfig(FullCTable, "rank", FullTable, "sum", "odd"),
      TableConfig(0, "rank", 0, "sum", "full") }

\* the int stored at c_table[i] / table[k]
c_table_at(cfg, i) ==
    LET base == ((i % KeyStride) % NumRanks) \div 4
    IN  IF cfg.ctKind = "signed" THEN base - 1 ELSE base

table_at(cfg, k) ==
    CASE cfg.tKind = "sum" -> k
      [] cfg.tKind = "neg" -> k - 20
      [] OTHER -> 0

\* The substitution index: 20 pairs (position of hand replaced, position of the
\* sorted selection it is replaced from), stored flat. From the base hand
\* (sorted positions 2..6) the 20 steps visit the other 20 five-card subsets.
ReplaceTable ==
    << 0, 0,  0, 1,  1, 0,  0, 2,  1, 1,  2, 0,  0, 3,  1, 2,  2, 1,  3, 0,
       0, 4,  1, 3,  2, 2,  3, 1,  4, 0,  0, 5,  1, 4,  2, 3,  3, 2,  4, 1 >>

\* replace as loaded: whole, cut short after 7 entries, or holding positions
\* that are out of range for hand (5) and for the selection (7)
replace(cfg) ==
    CASE cfg.rep = "full" -> ReplaceTable
      [] cfg.rep = "short" -> SubSeq(ReplaceTable, 1, 7)
      [] OTHER -> <<5, 0,  0, 7,  0, 0,  1, 1,  4, 6>>

-----------------------------------------------------------------------------
(* The hand evaluator, simulator.cpp:15-30 and 85-133 *)

InRange(i, size) == i >= 0 /\ i < size

RECURSIVE Insert(_, _)
Insert(x, s) ==
    IF s = <<>> THEN <<x>>
    ELSE IF x <= Head(s) THEN <<x>> \o s
    ELSE <<Head(s)>> \o Insert(x, Tail(s))

RECURSIVE Sort(_)
\* sort(selection.begin(), selection.end())
Sort(s) == IF s = <<>> THEN <<>> ELSE Insert(Head(s), Sort(Tail(s)))

Max(a, b) == IF a > b THEN a ELSE b

RECURSIVE ckeyLoopUnchecked(_, _, _, _, _)
\* to_ckey without the bounds check of simulator.cpp:22
ckeyLoopUnchecked(cfg, hand, i, key, rd) ==
    IF i >= Len(hand) THEN [key |-> key, reads |-> rd, oob |-> {}]
    ELSE LET table_index == (i + 1) * KeyStride + hand[i + 1] IN
         ckeyLoopUnchecked(cfg, hand, i + 1, key + c_table_at(cfg, table_index),
                           rd \cup {<<"c_table", table_index>>})

RECURSIVE ckeyLoop(_, _, _, _, _)
\* the loop of to_ckey from position i on, with the key and the reads so far;
\* oob names the bounds checks that failed ("[Error] Index out of bounds in
\* to_ckey" is simulator.cpp:25)
ckeyLoop(cfg, hand, i, key, rd) ==
    IF i >= Len(hand) THEN [key |-> key, reads |-> rd, oob |-> {}]
    ELSE LET table_index == (i + 1) * KeyStride + hand[i + 1] IN
         IF InRange(table_index, cfg.ctSize)
         THEN ckeyLoop(cfg, hand, i + 1, key + c_table_at(cfg, table_index),
                       rd \cup {<<"c_table", table_index>>})
         ELSE [key |-> 0, reads |-> rd, oob |-> {"to_ckey"}]

to_ckey(cfg, hand) == ckeyLoop(cfg, hand, 0, 0, {})

\* One step of the loop of simulator.cpp:108-131 on [key, hand, max_score, reads].
replaceStep(cfg, sel, j, st) ==
    LET rp == replace(cfg) IN
    IF j + 1 >= Len(rp) \/ rp[j + 1] >= HandSize \/ rp[j + 2] >= Len(sel) THEN st
    ELSE LET ix_k == (rp[j + 1] + 1) * KeyStride
             index1 == ix_k + sel[rp[j + 2] + 1]
             index2 == ix_k + st.hand[rp[j + 1] + 1]
         IN
         IF InRange(index1, cfg.ctSize) /\ InRange(index2, cfg.ctSize)
         THEN LET key == st.key + c_table_at(cfg, index1) - c_table_at(cfg, index2)
                  hand == [st.hand EXCEPT ![rp[j + 1] + 1] = sel[rp[j + 2] + 1]]
                  rd == st.reads \cup {<<"c_table", index1>>, <<"c_table", index2>>}
              IN  IF InRange(key, cfg.tSize)
                  THEN [key |-> key, hand |-> hand,
                        max_score |-> Max(st.max_score, table_at(cfg, key)),
                        reads |-> rd \cup {<<"table", key>>}, oob |-> st.oob]
                  ELSE [key |-> key, hand |-> hand, max_score |-> st.max_score,
                        reads |-> rd, oob |-> st.oob \cup {"replace_key"}]
         ELSE [st EXCEPT !.oob = @ \cup {"replace_index"}]

RECURSIVE replaceLoop(_, _, _, _)
\* for (int j = 0; j < 40; j += 2)
replaceLoop(cfg, sel, j, st) ==
    IF j >= ReplaceEntries THEN st
    ELSE replaceLoop(cfg, sel, j + 2, replaceStep(cfg, sel, j, st))

\* evaluate_selection: the value returned, the table reads made and the bounds
\* checks that failed ("[Error] Key out of bounds" is simulator.cpp:102)
evaluate_selection(cfg, unsorted) ==
    LET sel == Sort(unsorted) IN
    IF Len(sel) < SelectionSize THEN [score |-> -1, reads |-> {}, oob |-> {}]
    ELSE LET hand == [i \in 1..HandSize |-> sel[i + 2]]
             ck == to_ckey(cfg, hand)
         IN
         IF ~InRange(ck.key, cfg.tSize)
         THEN [score |-> 0, reads |-> ck.reads, oob |-> ck.oob \cup {"key"}]
         ELSE LET st == replaceLoop(cfg, sel, 0,
                            [key |-> ck.key, hand |-> hand,
                             max_score |-> table_at(cfg, ck.key),
                             reads |-> ck.reads \cup {<<"table", ck.key>>},
                             oob |-> ck.oob])
              IN  [score |-> st.max_score, reads |-> st.reads, oob |-> st.oob]

-----------------------------------------------------------------------------
(* One trial, simulator.cpp:135-177 *)

\* update_winners on [max_val, winners]
update_winners(my_val, w, ix) ==
    IF my_val > w.max_val THEN [max_val |-> my_val, winners |-> <<ix>>]
    ELSE IF my_val = w.max_val THEN [max_val |-> w.max_val, winners |-> Append(w.winners, ix)]
    ELSE w

\* seatStep, but with evaluate_selection sorting the caller's buffer (a
\* reference parameter) instead of its own copy
seatStepSortsInPlace(cfg, st, card1, card2, ix) ==
    LET sel == [st.selection EXCEPT ![6] = card1, ![7] = card2]
        ev == evaluate_selection(cfg, sel)
        w == IF ev.score >= 0
             THEN update_winners(ev.score, [max_val |-> st.max_val, winners |-> st.winners], ix)
             ELSE [max_val |-> st.max_val, winners |-> st.winners]
    IN  [selection |-> Sort(sel), max_val |-> w.max_val, winners |-> w.winners,
         scores |-> Append(st.scores, [seat |-> ix, score |-> ev.score, oob |-> ev.oob,
                                       selection |-> sel]),
         reads |-> st.reads \cup ev.reads]

\* One seat of simulate: the hole cards go to selection[5], selection[6], the
\* selection is evaluated and a result >= 0 goes to update_winners.
\* evaluate_selection takes the selection by value, so the buffer is left as
\* it was passed; the seat's entry of scores keeps the buffer as evaluated.
seatStep(cfg, st, card1, card2, ix) ==
    LET sel == [st.selection EXCEPT ![6] = card1, ![7] = card2]
        ev == evaluate_selection(cfg, sel)
        w == IF ev.score >= 0
             THEN update_winners(ev.score, [max_val |-> st.max_val, winners |-> st.winners], ix)
             ELSE [max_val |-> st.max_val, winners |-> st.winners]
    IN  [selection |-> sel, max_val |-> w.max_val, winners |-> w.winners,
         scores |-> Append(st.scores, [seat |-> ix, score |-> ev.score, oob |-> ev.oob,
                                       selection |-> sel]),
         reads |-> st.reads \cup ev.reads]

RECURSIVE knownLoop(_, _, _, _)
\* for (size_t i = 0; i < known_hands.size(); i++)
knownLoop(cfg, hands, i, st) ==
    IF i >= Len(hands) THEN st
    ELSE IF Len(hands[i + 1]) < 2 THEN knownLoop(cfg, hands, i + 1, st)
    ELSE knownLoop(cfg, hands, i + 1,
                   seatStep(cfg, st, hands[i + 1][1], hands[i + 1][2], i))

RECURSIVE unknownLoop(_, _, _, _, _, _)
\* for (int i = 0; start + i * 2 + 1 < sample.size(); i++)
unknownLoop(cfg, nknown, sample, start, i, st) ==
    IF ~(start + i * 2 + 1 < Len(sample)) THEN st
    ELSE unknownLoop(cfg, nknown, sample, start, i + 1,
                     seatStep(cfg, st, sample[start + i * 2 + 1], sample[start + i * 2 + 2],
                              nknown + i))

\* simulate: winners, and with them the selection as it is left, the value of
\* every seat evaluated and the table reads made
simulate(cfg, sel, hands, sample, start) ==
    LET \* selection.resize(7) when it is shorter
        sel7 == [i \in 1..Max(Len(sel), SelectionSize) |-> IF i <= Len(sel) THEN sel[i] ELSE 0]
        st0 == [selection |-> sel7, max_val |-> 0, winners |-> <<>>,
                scores |-> <<>>, reads |-> {}]
        st1 == knownLoop(cfg, hands, 0, st0)
    IN  unknownLoop(cfg, Len(hands), sample, start, 0, st1)

\* simulator.cpp:196-200: the missing board slots, filled from the back
RECURSIVE fillBoard(_, _, _, _)
fillBoard(sel, sample, s_comm, i) ==
    IF ~(i < s_comm /\ i < Len(sample)) THEN sel
    ELSE fillBoard(IF InRange(4 - i, SelectionSize)
                   THEN [sel EXCEPT ![4 - i + 1] = sample[i + 1]] ELSE sel,
                   sample, s_comm, i + 1)

RECURSIVE creditTies(_, _, _)
\* simulator.cpp:207-211
creditTies(res, w, k) ==
    IF k > Len(w) THEN res
    ELSE creditTies(IF InRange(w[k], Len(res))
                    THEN [res EXCEPT ![w[k] + 1][2] = @ + 1] ELSE res,
                    w, k + 1)

\* simulator.cpp:204-212
credit(res, w) ==
    IF Len(w) = 1 /\ w[1] < Len(res)
    THEN [res EXCEPT ![w[1] + 1][1] = @ + 1]
    ELSE creditTies(res, w, 1)

-----------------------------------------------------------------------------
(* The samples *)

\* gen_samples(N, c, pool): N samples of c distinct indices into the pool.
\* The samples drawn here are index windows: sample t starts at off + 3(t-1)
\* and runs upwards or downwards, modulo the pool size.
gen_samples(N, c, pool, off, up) ==
    [t \in 1..N |->
        [i \in 1..c |->
            (off + 3 * (t - 1) + (IF up THEN i - 1 ELSE pool - (i - 1))) % pool]]

\* simulator.cpp:70-80: the indices replaced by the cards they point at
mapSamples(smps, rem, c) ==
    [t \in 1..Len(smps) |->
        [i \in 1..Len(smps[t]) |->
            IF i - 1 < c /\ InRange(smps[t][i], Len(rem))
            THEN rem[smps[t][i] + 1] ELSE smps[t][i]]]

\* calculate is not running
EngineIdle ==
    /\ epc = "idle"
    /\ tcfg = Healthy
    /\ in_N = 0
    /\ in_comm_hand = <<>>
    /\ in_known_hands = <<>>
    /\ in_players_unknown = 0
    /\ remaining = <<>>
    /\ samples = <<>>
    /\ trial = 0
    /\ selection = <<>>
    /\ results = <<>>
    /\ scores = <<>>
    /\ winners = <<>>
    /\ reads = {}
    /\ ret = <<>>

-----------------------------------------------------------------------------
(* The daemon's request handler, main.cpp:69-144 *)

NoCall == <<>>

ErrorLine(msg) == [kind |-> "error", msg |-> msg, n |-> 0, seats |-> 0]
ResultLine(n, seats) == [kind |-> "result", msg |-> "", n |-> n, seats |-> seats]
NoLine == [kind |-> "none", msg |-> "", n |-> 0, seats |-> 0]

\* Number of seat rows calculate returns: none when fill_empty finds the pool
\* short (simulator.cpp:63, 181), else one per known hand and unknown seat
\* (simulator.cpp:187). gen_samples(N, ...) is not empty for N >= 1.
result_rows(comm_hand, known_hands, players_unknown) ==
    IF Len(get_remaining(comm_hand, known_hands)) < cards_needed(comm_hand, players_unknown)
    THEN 0
    ELSE Len(known_hands) + players_unknown

\* sim.compute_probabilities(iterations, comm_hand, known_hands, opponents): the
\* conversion of the texts and the call of calculate. The counters themselves are
\* the engine's; the daemon's response is modelled by its row count and by N.
compute_probabilities(N, comm_hand_str, known_hands_str, players_unknown) ==
    result_rows(convert_hand(comm_hand_str),
                [i \in 1..Len(known_hands_str) |-> convert_hand(known_hands_str[i])],
                players_unknown)

\* sort(all_cards); unique(all_cards) != end: some card text occurs twice
HasDuplicate(all_cards) == Cardinality(Range(all_cards)) # Len(all_cards)

\* calcCards without the duplicate check of main.cpp:116-124
calcCardsNoDuplicateCheck(board_str, hole_str, opponents, iterations) ==
    LET comm_hand == parseCards(board_str)
        hole_cards == parseCards(hole_str)
    IN
    IF Len(comm_hand) > MaxBoard
    THEN [line |-> ErrorLine("Board cannot have more than 5 cards"), call |-> NoCall]
    ELSE IF Len(hole_cards) # HoleSize
    THEN [line |-> ErrorLine("Need exactly 2 hole cards"), call |-> NoCall]
    ELSE [line |-> ResultLine(iterations,
                              compute_probabilities(iterations, comm_hand, <<hole_cards>>, opponents)),
          call |-> <<[N |-> iterations, comm_hand |-> comm_hand,
                      known_hands |-> <<hole_cards>>, players_unknown |-> opponents]>>]

\* main.cpp:103-135, entered with both numbers in range
calcCards(board_str, hole_str, opponents, iterations) ==
    LET comm_hand == parseCards(board_str) IN
    IF Len(comm_hand) > MaxBoard
    THEN [line |-> ErrorLine("Board cannot have more than 5 cards"), call |-> NoCall]
    ELSE LET hole_cards == parseCards(hole_str) IN
    IF Len(hole_cards) # HoleSize
    THEN [line |-> ErrorLine("Need exactly 2 hole cards"), call |-> NoCall]
    ELSE LET known_hands == <<hole_cards>>
             all_cards == comm_hand \o hole_cards
         IN
    IF HasDuplicate(all_cards)
    THEN [line |-> ErrorLine("Duplicate cards detected"), call |-> NoCall]
    ELSE LET rows == compute_probabilities(iterations, comm_hand, known_hands, opponents) IN
         [line |-> ResultLine(iterations, rows),
          call |-> <<[N |-> iterations, comm_hand |-> comm_hand,
                      known_hands |-> known_hands, players_unknown |-> opponents]>>]

\* runCalc without the range check on opponents of main.cpp:93-97
runCalcAnyOpponents(command) ==
    LET params == SubstrFrom(command, 5)
        parts == Split(params, "|")
    IN
    IF Len(parts) # NumFields
    THEN [line |-> ErrorLine("Invalid command format. Expected: CALC board|hole|opponents|iterations"),
          call |-> NoCall]
    ELSE LET opponents == stoi(parts[3])
             iterations == stoi(parts[4])
         IN
    IF ~opponents.ok THEN [line |-> ErrorLine(opponents.what), call |-> NoCall]
    ELSE IF ~iterations.ok THEN [line |-> ErrorLine(iterations.what), call |-> NoCall]
    ELSE IF iterations.val < MinIterations \/ iterations.val > MaxIterations
    THEN [line |-> ErrorLine("Iterations must be 100-1000000"), call |-> NoCall]
    ELSE calcCards(parts[1], parts[2], opponents.val, iterations.val)

\* main.cpp:76-140: the body of the try block for a command that starts "CALC "
runCalc(command) ==
    LET params == SubstrFrom(command, 5)
        parts == Split(params, "|")
    IN
    IF Len(parts) # NumFields
    THEN [line |-> ErrorLine("Invalid command format. Expected: CALC board|hole|opponents|iterations"),
          call |-> NoCall]
    ELSE LET opponents == stoi(parts[3])
             iterations == stoi(parts[4])
         IN
    IF ~opponents.ok THEN [line |-> ErrorLine(opponents.what), call |-> NoCall]
    ELSE IF ~iterations.ok THEN [line |-> ErrorLine(iterations.what), call |-> NoCall]
    ELSE IF opponents.val < MinOpponents \/ opponents.val > MaxOpponents
    THEN [line |-> ErrorLine("Opponents must be 1-8"), call |-> NoCall]
    ELSE IF iterations.val < MinIterations \/ iterations.val > MaxIterations
    THEN [line |-> ErrorLine("Iterations must be 100-1000000"), call |-> NoCall]
    ELSE calcCards(parts[1], parts[2], opponents.val, iterations.val)

IsExit(command) == command = <<"E", "X", "I", "T">>
IsCalc(command) == SubstrTo(command, 5) = <<"C", "A", "L", "C", " ">>

-----------------------------------------------------------------------------
(* The command lines the daemon is given *)

Join(a, sep, b) == a \o <<sep>> \o b

As == <<"A", "s">>
Kh == <<"K", "h">>
Qd == <<"Q", "d">>
Jh == <<"J", "h">>
Ts == <<"T", "s">>
c2 == <<"2", "c">>
c3 == <<"3", "c">>
c4 == <<"4", "c">>
c5 == <<"5", "c">>
c6 == <<"6", "c">>
c7 == <<"7", "c">>
Zz == <<"Z", "z">>

Five == Join(Join(Join(Join(c2, ",", c3), ",", c4), ",", c5), ",", c6)

\* Board fields: preflop, one card, a card of the default hole, an invalid
\* token alone / beside a hole card / after six cards, five and six cards, and
\* a field with a blank and an empty token.
BoardStrs ==
    { <<>>, Jh, As, Zz, Join(As, ",", Zz), Five, Join(Five, ",", c7),
      Join(Join(Five, ",", c7), ",", Zz),
      <<" ">> \o Join(Join(Jh, ",", <<>>), ",", Ts) }

HoleStrs ==
    { Join(As, ",", Kh), As, Join(As, ",", As), Join(Zz, ",", Kh),
      Join(Join(As, ",", Kh), ",", Qd) }

\* 24 opponents would need more cards than the river leaves in the deck
OppStrs == { <<"2">>, <<"8">>, <<"0">>, <<"9">>, <<"2", "4">>, <<"x">>, <<"2", "x">> }

\* An empty last field is no field ("b|h|2|" has three), "100|7" makes five.
IterStrs ==
    { <<"1", "0", "0">>, <<"9", "9">>, <<"1", "0", "0", "0", "0", "0", "0">>,
      <<"1", "0", "0", "0", "0", "0", "1">>,
      <<"9", "9", "9", "9", "9", "9", "9", "9", "9", "9", "9">>,
      <<>>, <<"1", "0", "0", "|", "7">> }

DefBoard == <<>>
DefHole == Join(As, ",", Kh)
DefOpp == <<"2">>
DefIter == <<"1", "0", "0">>

CalcLine(b, h, o, i) ==
    <<"C", "A", "L", "C", " ">> \o Join(Join(Join(b, "|", h), "|", o), "|", i)

\* CALC lines in which at most two fields differ from the default request.
CalcLines ==
    {CalcLine(b, h, DefOpp, DefIter) : b \in BoardStrs, h \in HoleStrs}
    \cup {CalcLine(b, DefHole, o, DefIter) : b \in BoardStrs, o \in OppStrs}
    \cup {CalcLine(b, DefHole, DefOpp, i) : b \in BoardStrs, i \in IterStrs}
    \cup {CalcLine(DefBoard, h, o, DefIter) : h \in HoleStrs, o \in OppStrs}
    \cup {CalcLine(DefBoard, h, DefOpp, i) : h \in HoleStrs, i \in IterStrs}
    \cup {CalcLine(DefBoard, DefHole, o, i) : o \in OppStrs, i \in IterStrs}

ExitLines == { <<"E", "X", "I", "T">>, <<"E", "X", "I", "T", " ", "\r">> }

OtherLines ==
    { <<>>, <<"P", "I", "N", "G">>, <<"C", "A", "L", "C">>, <<"C", "A", "L", "C", " ">>,
      <<" ", "E", "X", "I", "T">>, <<"e", "x", "i", "t">> }

\* What getline can return, before the trim.
Lines == CalcLines \cup ExitLines \cup OtherLines

\* The handler's outcome for each line, computed once.
CalcOutcome == [l \in {Trim(x) : x \in Lines} |-> IF IsCalc(l) THEN runCalc(l) ELSE [line |-> NoLine, call |-> NoCall]]

-----------------------------------------------------------------------------
(* The daemon loop, main.cpp:49-149 *)

MarkerLine == [kind |-> "marker", cmd |-> 0]
ReadyLine == [kind |-> "READY", cmd |-> 0]

\* State after the table is loaded and READY is written (main.cpp:52-62).
DaemonInit ==
    /\ pc = "READY"
    /\ marker_sent = FALSE
    /\ nread = 0
    /\ cmd = <<>>
    /\ out = <<ReadyLine>>
    /\ resp = NoLine
    /\ sim_call = NoCall
    /\ nsim = 0

\* getline returns a line; the line is trimmed (main.cpp:63-64)
Reads(line) ==
    /\ pc = "READY"
    /\ nread < MaxCmds
    /\ nread' = nread + 1
    /\ cmd' = Trim(line)

\* Exit, but answering the termination command with a line
ExitAnswers(line) ==
    /\ Reads(line)
    /\ IsExit(Trim(line))
    /\ pc' = "TERMINATED"
    /\ out' = Append(out, [kind |-> "error", cmd |-> nread + 1])
    /\ resp' = NoLine
    /\ sim_call' = NoCall
    /\ UNCHANGED <<marker_sent, nsim>>
    /\ UNCHANGED evars

\* main.cpp:65-68
Exit(line) ==
    /\ Reads(line)
    /\ IsExit(Trim(line))
    /\ pc' = "TERMINATED"
    /\ resp' = NoLine
    /\ sim_call' = NoCall
    /\ UNCHANGED <<marker_sent, out, nsim>>
    /\ UNCHANGED evars

\* Calc, but with the marker written by the first request that is served with
\* a result instead of by the first CALC command
CalcMarkerOnSuccess(line) ==
    /\ Reads(line)
    /\ ~IsExit(Trim(line))
    /\ IsCalc(Trim(line))
    /\ LET r == CalcOutcome[Trim(line)]
           served == r.line.kind = "result"
           marker == IF marker_sent \/ ~served THEN <<>> ELSE <<MarkerLine>>
       IN  /\ marker_sent' = (marker_sent \/ served)
           /\ sim_call' = r.call
           /\ nsim' = nsim + Len(r.call)
           /\ pc' = "READY"
           /\ out' = out \o marker \o <<[kind |-> r.line.kind, cmd |-> nread + 1]>>
           /\ resp' = r.line
    /\ UNCHANGED evars

\* main.cpp:69-140: the one-time marker, then the request's one response
Calc(line) ==
    /\ Reads(line)
    /\ ~IsExit(Trim(line))
    /\ IsCalc(Trim(line))
    /\ LET r == CalcOutcome[Trim(line)]
           marker == IF marker_sent THEN <<>> ELSE <<MarkerLine>>
           \* results[0] is read unguarded (main.cpp:128): with no row returned
           \* the read is undefined, and either the process dies or some
           \* numbers are printed
           outcomes == IF r.line.kind = "result" /\ r.line.seats = 0
                       THEN {"crash", "garbage"} ELSE {"defined"}
       IN  /\ marker_sent' = TRUE
           /\ sim_call' = r.call
           /\ nsim' = nsim + Len(r.call)
           /\ \E o \in outcomes :
                 IF o = "crash"
                 THEN /\ pc' = "CRASHED"
                      /\ out' = out \o marker
                      /\ resp' = NoLine
                 ELSE /\ pc' = "READY"
                      /\ out' = out \o marker \o <<[kind |-> r.line.kind, cmd |-> nread + 1]>>
                      /\ resp' = r.line
    /\ UNCHANGED evars

\* Unknown, but writing nothing for a command it does not know
UnknownSilent(line) ==
    /\ Reads(line)
    /\ ~IsExit(Trim(line))
    /\ ~IsCalc(Trim(line))
    /\ resp' = NoLine
    /\ sim_call' = NoCall
    /\ pc' = "READY"
    /\ UNCHANGED <<marker_sent, nsim, out>>
    /\ UNCHANGED evars

\* main.cpp:141-144
Unknown(line) ==
    /\ Reads(line)
    /\ ~IsExit(Trim(line))
    /\ ~IsCalc(Trim(line))
    /\ out' = Append(out, [kind |-> "error", cmd |-> nread + 1])
    /\ resp' = ErrorLine("Unknown command")
    /\ sim_call' = NoCall
    /\ pc' = "READY"
    /\ UNCHANGED <<marker_sent, nsim>>
    /\ UNCHANGED evars

\* getline fails at the end of the input: the loop ends (main.cpp:63)
Eof ==
    /\ pc = "READY"
    /\ pc' = "TERMINATED"
    /\ UNCHANGED <<marker_sent, nread, cmd, out, resp, sim_call, nsim>>
    /\ UNCHANGED evars

Init == DaemonInit /\ EngineIdle

Next ==
    \/ \E line \in Lines : Exit(line)
    \/ \E line \in Lines : Calc(line)
    \/ \E line \in Lines : Unknown(line)
    \/ Eof

Spec == Init /\ [][Next]_vars

-----------------------------------------------------------------------------
(* One call of calculate, simulator.cpp:179-216 *)

\* The deals calculate is called with: the cards of a deal are dealt from the
\* deck in steps of 7 from card 11 (7 and 52 are coprime, so no card repeats),
\* the board first, then the known hands.
\* preflop, flop, turn, river
BoardCounts == {0, 3, 4, 5}
DealCard(k) == (11 + 7 * k) % DeckSize
DealBoard(nb) == [i \in 1..nb |-> DealCard(i - 1)]
DealHands(nb, nk) ==
    [h \in 1..nk |-> <<DealCard(nb + 2 * (h - 1)), DealCard(nb + 2 * (h - 1) + 1)>>]

KnownCounts == {1, 2, ManyKnown}

\* calculate is entered: its arguments and the loaded tables are any of the
\* bounded choices, its locals are not yet set.
SimInit ==
    /\ DaemonInit
    /\ epc = "start"
    /\ tcfg \in TableConfigs
    /\ in_N \in 1..MaxTrials
    /\ \E nb \in BoardCounts, nk \in KnownCounts, u \in 0..MaxUnknown :
          \* the crowded deals are entered with the most unknown seats only
          /\ nk = ManyKnown => u = MaxUnknown
          /\ in_comm_hand = DealBoard(nb)
          /\ in_known_hands = DealHands(nb, nk)
          /\ in_players_unknown = u
    /\ remaining = <<>>
    /\ samples = <<>>
    /\ trial = 0
    /\ selection = <<>>
    /\ results = <<>>
    /\ scores = <<>>
    /\ winners = <<>>
    /\ reads = {}
    /\ ret = <<>>

\* FillEmpty without the check of simulator.cpp:63-66
FillEmptyUnchecked ==
    /\ epc = "start"
    /\ LET rem == get_remaining(in_comm_hand, in_known_hands)
           c == cards_needed(in_comm_hand, in_players_unknown)
       IN  /\ remaining' = rem
           /\ \E off \in 0..MaxOffset, up \in BOOLEAN :
                 samples' = mapSamples(gen_samples(in_N, c, Len(rem), off, up), rem, c)
           /\ epc' = "trials"
           /\ trial' = 1
           /\ selection' = [i \in 1..SelectionSize |->
                               IF i <= Len(in_comm_hand) THEN in_comm_hand[i] ELSE 0]
           /\ results' = [s \in 1..(Len(in_known_hands) + in_players_unknown) |-> <<0, 0>>]
           /\ ret' = <<>>
    /\ UNCHANGED <<tcfg, in_N, in_comm_hand, in_known_hands, in_players_unknown,
                   scores, winners, reads>>
    /\ UNCHANGED dvars

\* simulator.cpp:179-193 with fill_empty (59-83): the pool, the samples or the
\* early return, the counters and the board slots of the selection.
FillEmpty ==
    /\ epc = "start"
    /\ LET rem == get_remaining(in_comm_hand, in_known_hands)
           c == cards_needed(in_comm_hand, in_players_unknown)
       IN  /\ remaining' = rem
           /\ IF Len(rem) < c
              THEN samples' = <<>>
              ELSE \E off \in 0..MaxOffset, up \in BOOLEAN :
                      samples' = mapSamples(gen_samples(in_N, c, Len(rem), off, up), rem, c)
           /\ IF samples' = <<>>
              THEN /\ epc' = "done"
                   /\ ret' = <<>>
                   /\ UNCHANGED <<trial, selection, results>>
              ELSE /\ epc' = "trials"
                   /\ trial' = 1
                   /\ selection' = [i \in 1..SelectionSize |->
                                       IF i <= Len(in_comm_hand) THEN in_comm_hand[i] ELSE 0]
                   /\ results' = [s \in 1..(Len(in_known_hands) + in_players_unknown) |-> <<0, 0>>]
                   /\ ret' = <<>>
    /\ UNCHANGED <<tcfg, in_N, in_comm_hand, in_known_hands, in_players_unknown,
                   scores, winners, reads>>
    /\ UNCHANGED dvars

\* simulator.cpp:195-213: one pass of the loop over the samples
Trial ==
    /\ epc = "trials"
    /\ trial <= Len(samples)
    /\ LET sample == samples[trial]
           s_comm == BoardSize - Len(in_comm_hand)
           sim == simulate(tcfg, fillBoard(selection, sample, s_comm, 0),
                           in_known_hands, sample, s_comm)
       IN  /\ selection' = sim.selection
           /\ winners' = sim.winners
           /\ scores' = sim.scores
           /\ reads' = sim.reads
           /\ results' = credit(results, sim.winners)
    /\ trial' = trial + 1
    /\ UNCHANGED <<epc, tcfg, in_N, in_comm_hand, in_known_hands, in_players_unknown,
                   remaining, samples, ret>>
    /\ UNCHANGED dvars

\* simulator.cpp:215
Return ==
    /\ epc = "trials"
    /\ trial > Len(samples)
    /\ epc' = "done"
    /\ ret' = results
    /\ UNCHANGED <<tcfg, in_N, in_comm_hand, in_known_hands, in_players_unknown,
                   remaining, samples, trial, selection, results, scores, winners, reads>>
    /\ UNCHANGED dvars

SimNext == FillEmpty \/ Trial \/ Return

SimSpec == SimInit /\ [][SimNext]_vars

-----------------------------------------------------------------------------
(* The request as the caller wrote it, for the statements about the daemon *)

ReqFields(c) == Split(SubstrFrom(c, 5), "|")
ReqField(c, k) == IF Len(ReqFields(c)) >= k THEN ReqFields(c)[k] ELSE <<>>

\* the non-empty card tokens of a field, blanks removed
Tokens(field) ==
    LET toks == Split(field, ",")
    IN  SelectSeq([i \in 1..Len(toks) |-> RemoveSpaces(toks[i])], LAMBDA t : t # <<>>)

HasInvalidToken(field) == \E i \in 1..Len(Tokens(field)) : ~isValidCard(Tokens(field)[i])
Repeats(toks) == \E i, j \in 1..Len(toks) : i < j /\ toks[i] = toks[j]

NumberIn(field, lo, hi) == stoi(field).ok /\ stoi(field).val >= lo /\ stoi(field).val <= hi

NumbersOK(c) ==
    /\ NumberIn(ReqField(c, 3), MinOpponents, MaxOpponents)
    /\ NumberIn(ReqField(c, 4), MinIterations, MaxIterations)

\* The request of the protocol: four fields, both numbers in range, a board of
\* at most five cards, two hole cards, no card twice.
ValidRequest(c) ==
    /\ IsCalc(c)
    /\ Len(ReqFields(c)) = NumFields
    /\ NumbersOK(c)
    /\ ~HasInvalidToken(ReqField(c, 1)) /\ ~HasInvalidToken(ReqField(c, 2))
    /\ Len(Tokens(ReqField(c, 1))) <= MaxBoard
    /\ Len(Tokens(ReqField(c, 2))) = HoleSize
    /\ ~Repeats(Tokens(ReqField(c, 1)) \o Tokens(ReqField(c, 2)))

\* The validation failures C1 lists. A board field holding an invalid token is
\* not among them (C2 is about it).
FailsValidation(c) ==
    /\ IsCalc(c)
    /\ \/ Len(ReqFields(c)) # NumFields
       \/ ~NumbersOK(c)
       \/ /\ ~HasInvalidToken(ReqField(c, 1))
          /\ \/ Len(Tokens(ReqField(c, 1))) > MaxBoard
             \/ HasInvalidToken(ReqField(c, 2))
             \/ Len(Tokens(ReqField(c, 2))) # HoleSize
             \/ Repeats(Tokens(ReqField(c, 1)) \o Tokens(ReqField(c, 2)))

\* The two classes of lines, computed once for the lines the daemon is given.
TrimmedLines == {Trim(x) : x \in Lines}
FailingLines == {l \in TrimmedLines : FailsValidation(l)}
ValidLines == {l \in TrimmedLines : ValidRequest(l)}

-----------------------------------------------------------------------------
(* C1 *)

-----------------------------------------------------------------------------
(* C2 *)

\* C2: a CALC request with an invalid card token in its board field or in its
\* hole field gets an error response and no simulation is run.
C2_InvalidTokenRejected ==
    (nread > 0 /\ IsCalc(cmd)
       /\ (HasInvalidToken(ReqField(cmd, 1)) \/ HasInvalidToken(ReqField(cmd, 2))))
    => (resp.kind = "error" /\ sim_call = NoCall)

-----------------------------------------------------------------------------
(* C3 *)

\* C3: the simulation is invoked only for a CALC request with exactly four
\* fields, opponents in [1,8], iterations in [100,1000000], at most five board
\* cards, exactly two hole cards and no card twice across board and hole; every
\* other command gets an error and no simulation.
RequestAsClaimed(c) ==
    /\ IsCalc(c)
    /\ Len(ReqFields(c)) = NumFields
    /\ NumbersOK(c)
    /\ Len(Tokens(ReqField(c, 1))) <= MaxBoard
    /\ Len(Tokens(ReqField(c, 2))) = HoleSize
    /\ ~Repeats(Tokens(ReqField(c, 1)) \o Tokens(ReqField(c, 2)))

C3_SimulationOnlyIfValid ==
    /\ sim_call # NoCall => RequestAsClaimed(cmd)
    /\ (nread > 0 /\ ~IsExit(cmd) /\ ~RequestAsClaimed(cmd))
          => (resp.kind = "error" /\ sim_call = NoCall)

-----------------------------------------------------------------------------
(* C4 *)

\* the lines after the readiness signal
Responses == SubSeq(out, 2, Len(out))
\* the commands read that are no termination command
Answered == IF nread > 0 /\ IsExit(cmd) THEN nread - 1 ELSE nread

AnswerLines == SelectSeq(Responses, LAMBDA l : l.kind \in {"error", "result"})
MarkerAt(k) == out[k].kind = "marker"

-----------------------------------------------------------------------------
(* C5 *)

\* C5: the termination command and the end of the input end the loop: no line
\* is written for it, and once terminated nothing is read, written or computed
\* and the state stays TERMINATED.
C5_TerminationIsFinal ==
    [][ /\ (nread' = nread + 1 /\ IsExit(cmd'))
            => (pc' = "TERMINATED" /\ out' = out /\ nsim' = nsim)
        /\ (pc = "READY" /\ pc' = "TERMINATED") => out' = out
        /\ pc = "TERMINATED"
            => (pc' = "TERMINATED" /\ nread' = nread /\ out' = out /\ nsim' = nsim)
      ]_vars

\* EXIT read after two answered commands.
C5_Witness ==
    /\ pc = "TERMINATED"
    /\ nread = 3
    /\ IsExit(cmd)
    /\ Len(AnswerLines) = 2

-----------------------------------------------------------------------------
(* Statements about the engine *)

Seats == 0..(Len(in_known_hands) + in_players_unknown - 1)
UsedCards == Range(in_comm_hand) \cup Range(Flatten(in_known_hands))
AfterFill == epc \in {"trials", "done"}
\* at least one trial has run
AfterTrial == epc \in {"trials", "done"} /\ trial > 1

-----------------------------------------------------------------------------
(* C6 *)

\* the value evaluate_selection returned for a seat in the trial just run
ScoreOf(sc, seat) == sc[CHOOSE k \in 1..Len(sc) : sc[k].seat = seat].score
AllScored(sc) == \A seat \in Seats : \E k \in 1..Len(sc) : sc[k].seat = seat
TopSeats(sc) == {w \in Seats : \A o \in Seats : ScoreOf(sc, w) >= ScoreOf(sc, o)}

\* the counters after one seat got a win / after the seats of W got a tie each
WinTo(res, w) == [res EXCEPT ![w + 1][1] = @ + 1]
TiesTo(res, W) == [s \in 1..Len(res) |-> IF (s - 1) \in W THEN <<res[s][1], res[s][2] + 1>> ELSE res[s]]

\* C6: in every trial, when exactly one seat has the maximum score over all
\* seats that seat's win counter goes up by one and nothing else changes; when
\* two or more seats have it, the tie counter of each of them goes up by one and
\* nothing else changes.
C6_CreditPolicy ==
    [][ (epc = "trials" /\ trial' = trial + 1)
          => /\ AllScored(scores')
             /\ LET W == TopSeats(scores') IN
                IF Cardinality(W) = 1
                THEN results' = WinTo(results, CHOOSE w \in W : TRUE)
                ELSE results' = TiesTo(results, W)
      ]_vars

-----------------------------------------------------------------------------
(* C7 *)

\* C7: with at least one seat, the winner set simulate returns is not empty in
\* any trial, whatever the evaluator returns for the seats.
C7_WinnersNotEmpty ==
    (AfterTrial /\ Seats # {}) => winners # <<>>

-----------------------------------------------------------------------------
(* C8 *)

\* C8: for a board and known hands of pairwise distinct cards in [0,52),
\* get_remaining returns 52 - |board| - 2*|known_hands| cards, none of them on
\* the board or in a known hand, and every other card of the deck is returned.
C8_RemainingIsTheRest ==
    AfterFill =>
        /\ Len(remaining) = DeckSize - Len(in_comm_hand) - 2 * Len(in_known_hands)
        /\ Range(remaining) \cap UsedCards = {}
        /\ \A card \in 0..(DeckSize - 1) : card \notin UsedCards => card \in Range(remaining)

\* the flop with two known hands: 45 cards are left
C8_Witness ==
    /\ AfterFill
    /\ Len(in_comm_hand) = 3
    /\ Len(in_known_hands) = 2
    /\ Len(remaining) = 45

-----------------------------------------------------------------------------
(* C9 *)

PoolSize == DeckSize - Cardinality(UsedCards)
Needed == 2 * in_players_unknown + BoardSize - Len(in_comm_hand)

\* C9: when the pool has fewer cards than the c = 2*unknown_seats + 5 - |board|
\* a trial needs, fill_empty returns no sample and calculate returns an empty
\* result: no trial is run and no counter exists or is credited.
C9_ShortPoolReturnsEmpty ==
    (epc # "start" /\ PoolSize < Needed) =>
        /\ epc = "done"
        /\ samples = <<>>
        /\ ret = <<>>
        /\ trial = 0
        /\ results = <<>>
        /\ scores = <<>> /\ winners = <<>>

C9_Witness ==
    /\ epc = "done"
    /\ PoolSize < Needed
    /\ Len(remaining) = PoolSize
    /\ ret = <<>>

-----------------------------------------------------------------------------
(* C10 *)

\* C10: whatever the sizes of the loaded tables, the evaluator reads c_table
\* and table only at indices inside them.
C10_ReadsInsideTables ==
    \A r \in reads :
        /\ r[1] = "c_table" => (r[2] >= 0 /\ r[2] < tcfg.ctSize)
        /\ r[1] = "table" => (r[2] >= 0 /\ r[2] < tcfg.tSize)

\* A trial over a contribution table too short for the later hand positions:
\* the positions in range were read, and so was the score table.
C10_Witness ==
    /\ AfterTrial
    /\ tcfg.ctSize = ShortCTable
    /\ \E r \in reads : r[1] = "c_table"
    /\ \E r \in reads : r[1] = "table"
    /\ \E s \in 1..Len(scores) : scores[s].score > 0

-----------------------------------------------------------------------------
(* C11 *)

\* the seats whose evaluation in the trial just run computed a table index
\* outside the loaded table
OutOfRangeSeats == {scores[k].seat : k \in {j \in 1..Len(scores) : scores[j].oob # {}}}

\* C11: a seat whose evaluation computed a table index outside the loaded
\* table is not among the winners of its trial, so it is credited neither a win
\* nor a tie, and a call of calculate in which that happened ends without
\* counters to report (the request is answered with an error).
C11_OutOfRangeNotScored ==
    (AfterTrial /\ OutOfRangeSeats # {}) =>
        /\ OutOfRangeSeats \cap Range(winners) = {}
        /\ epc = "done" => ret = <<>>

-----------------------------------------------------------------------------
(* C12 *)

Markers(o) == SelectSeq(o, LAMBDA l : l.kind = "marker")

\* C12 as claimed: the marker is written at most once, it is written for the
\* first request served with a result (no result line comes before it), and it
\* is not written for a CALC request that ends in an error response (the line
\* after the marker is a result).
C12_MarkerOnFirstSuccess ==
    /\ Len(Markers(out)) <= 1
    /\ \A k \in 1..Len(out) :
          /\ out[k].kind = "result" => \E j \in 1..(k - 1) : MarkerAt(j)
          /\ (MarkerAt(k) /\ k < Len(out)) => out[k + 1].kind = "result"

\* C12, amended: the marker is written at most once, by the first command that
\* starts with "CALC " and whatever that request ends in (an error response
\* included), directly before its response; no other command writes it.
C12_MarkerOnFirstCalc ==
    [][ /\ Len(Markers(out')) = (IF marker_sent' THEN 1 ELSE 0)
        /\ (nread' = nread + 1 /\ IsCalc(cmd') /\ ~marker_sent)
              => /\ marker_sent'
                 /\ Len(out') = Len(out) + 2
                 /\ SubSeq(out', 1, Len(out) + 1) = Append(out, MarkerLine)
                 /\ out'[Len(out')] = [kind |-> resp'.kind, cmd |-> nread']
                 /\ resp'.kind \in {"error", "result"}
        /\ (nread' = nread + 1 /\ IsCalc(cmd') /\ marker_sent)
              => /\ marker_sent'
                 /\ Markers(out') = Markers(out)
        /\ (nread' = nread + 1 /\ ~IsCalc(cmd'))
              => /\ marker_sent' = marker_sent
                 /\ Markers(out') = Markers(out)
      ]_vars

\* An unknown command, then the first CALC, which fails validation and still
\* gets the marker, then a CALC that is served and gets none.
C12_Witness ==
    /\ nread = 3
    /\ marker_sent
    /\ out = <<ReadyLine, [kind |-> "error", cmd |-> 1], MarkerLine,
               [kind |-> "error", cmd |-> 2], [kind |-> "result", cmd |-> 3]>>

-----------------------------------------------------------------------------
(* C13 *)

NoRepeat(s) == Cardinality(Range(s)) = Len(s)
\* the sample of the trial just run, and the first sample entry of the seats
LastSample == samples[trial - 1]
SComm == BoardSize - Len(in_comm_hand)
KnownSeats == Len(in_known_hands)
\* the cards calculate is given are pairwise distinct
GivenDistinct == NoRepeat(in_comm_hand \o Flatten(in_known_hands))
\* the sample is c pairwise distinct cards of the remaining pool
SampleAsDrawn ==
    /\ Len(LastSample) = cards_needed(in_comm_hand, in_players_unknown)
    /\ NoRepeat(LastSample)
    /\ Range(LastSample) \subseteq Range(remaining)

\* C13: in every trial on pairwise distinct given cards whose sample is c
\* pairwise distinct cards of the remaining pool, no card occurs twice in the complete deal (board, sample,
\* known hands); every seat is evaluated on a buffer whose slots 0..|board|-1
\* hold the given board and whose slots |board|..4 hold sample entries
\* 0..4-|board| (slot 4-i holds entry i); unknown seat k is evaluated with
\* sample entries (5-|board|)+2k and (5-|board|)+2k+1 in the hole slots 5 and
\* 6, a known seat with its own two cards; exactly unknown_seats unknown seats
\* are evaluated; and the buffer is left as the last seat was evaluated, only
\* its hole slots having changed from seat to seat.
C13_DealIsDuplicateFree ==
    (AfterTrial /\ GivenDistinct /\ SampleAsDrawn) =>
        /\ NoRepeat(in_comm_hand \o LastSample \o Flatten(in_known_hands))
        /\ Len(scores) = KnownSeats + in_players_unknown
        /\ Cardinality({k \in 1..Len(scores) : scores[k].seat >= KnownSeats}) = in_players_unknown
        /\ \A k \in 1..Len(scores) :
              LET s == scores[k].selection
                  seat == scores[k].seat
                  u == seat - KnownSeats
              IN  /\ seat = k - 1
                  /\ Len(s) = SelectionSize
                  /\ NoRepeat(s)
                  /\ \A i \in 1..Len(in_comm_hand) : s[i] = in_comm_hand[i]
                  /\ \A i \in 0..(SComm - 1) : s[4 - i + 1] = LastSample[i + 1]
                  /\ seat < KnownSeats =>
                        <<s[6], s[7]>> = in_known_hands[seat + 1]
                  /\ seat >= KnownSeats =>
                        /\ s[6] = LastSample[SComm + 2 * u + 1]
                        /\ s[7] = LastSample[SComm + 2 * u + 2]
        /\ Len(scores) > 0 => selection = scores[Len(scores)].selection

\* a trial on the flop with one known hand and two unknown seats: the second
\* unknown seat got sample entries 4 and 5
C13_Witness ==
    /\ AfterTrial /\ GivenDistinct /\ SampleAsDrawn
    /\ Len(in_comm_hand) = 3
    /\ KnownSeats = 1
    /\ in_players_unknown = 2
    /\ Len(scores) = 3
    /\ scores[3].selection[6] = LastSample[5]
    /\ scores[3].selection[7] = LastSample[6]
    /\ scores[1].selection[6] # scores[3].selection[6]

-----------------------------------------------------------------------------
(* C14 *)

RECURSIVE SumColumn(_, _)
\* the sum of the win (col = 1) or tie (col = 2) counters over all seats
SumColumn(res, col) ==
    IF res = <<>> THEN 0 ELSE Head(res)[col] + SumColumn(Tail(res), col)

\* C14: the counters start at zero; a trial changes each seat's pair of
\* counters by at most 1 in total and credits either one win or ties (so that
\* the trials that credited a win and the trials that credited ties add up to
\* the N trials run); after every trial each seat's wins + ties and the sum of
\* the win counters are at most the number of trials run; and calculate
\* returns the counters after exactly N trials.
C14_CountersAccountForTrials ==
    [][ /\ (epc = "start" /\ epc' = "trials")
            => \A s \in 1..Len(results') : results'[s] = <<0, 0>>
        /\ (epc = "trials" /\ trial' = trial + 1)
            => /\ \A s \in 1..Len(results) :
                     /\ results'[s][1] >= results[s][1]
                     /\ results'[s][2] >= results[s][2]
                     /\ results'[s][1] + results'[s][2] <= results[s][1] + results[s][2] + 1
                     /\ results'[s][1] + results'[s][2] <= trial
               /\ SumColumn(results', 1) <= trial
               /\ \/ /\ SumColumn(results', 1) = SumColumn(results, 1) + 1
                     /\ SumColumn(results', 2) = SumColumn(results, 2)
                  \/ /\ SumColumn(results', 1) = SumColumn(results, 1)
                     /\ SumColumn(results', 2) > SumColumn(results, 2)
        /\ (epc = "trials" /\ epc' = "done")
            => (ret' = results /\ trial - 1 = in_N)
      ]_vars

-----------------------------------------------------------------------------
(* C15 *)

\* the call of calculate the last command made, with its cards as numbers
CallBoard == convert_hand(sim_call[1].comm_hand)
CallHands == [i \in 1..Len(sim_call[1].known_hands) |-> convert_hand(sim_call[1].known_hands[i])]
CallPool == Len(get_remaining(CallBoard, CallHands))
CallNeeded == cards_needed(CallBoard, sim_call[1].players_unknown)

\* C15: every CALC request that passes the daemon's validation calls the
\* simulation with at most 5 board cards, 2 hole cards, no card twice and 1 to 8
\* opponents; the remaining pool then has 52 - |board| - 2 cards, which is at
\* least the 2*opponents + 5 - |board| needed, so calculate returns one row per
\* seat, the request is answered with a result, and the read of the first
\* seat's counters never finds an empty result (the loop never dies on it).
C15_ValidRequestAlwaysHasRows ==
    /\ pc # "CRASHED"
    /\ sim_call # NoCall =>
          /\ Len(CallBoard) <= MaxBoard
          /\ Len(CallHands) = 1 /\ Len(CallHands[1]) = HoleSize
          /\ Cardinality(Range(CallBoard \o CallHands[1])) = Len(CallBoard) + HoleSize
          /\ sim_call[1].players_unknown \in MinOpponents..MaxOpponents
          /\ CallPool = DeckSize - Len(CallBoard) - HoleSize
          /\ CallPool >= CallNeeded
          /\ result_rows(CallBoard, CallHands, sim_call[1].players_unknown)
                = 1 + sim_call[1].players_unknown
          /\ resp.kind = "result"
          /\ resp.seats = 1 + sim_call[1].players_unknown

\* the request that needs the most of the smallest pool: a full board and 8
\* opponents, 16 cards of 45
C15_Witness ==
    /\ pc = "READY"
    /\ sim_call # NoCall
    /\ Len(CallBoard) = MaxBoard
    /\ sim_call[1].players_unknown = MaxOpponents
    /\ CallPool = 45
    /\ CallNeeded = 16
    /\ resp.seats = 9

====
